---- MODULE Spec2Model ----
(***************************************************************************)
(* IT support ticket portal: the Express routes (server/routes.ts, here    *)
(* src/unnamed/part_003), the demo identity stub (src/demo.ts) and the     *)
(* in-memory store MemStorage (src/schema.ts), which is the store the      *)
(* program exports (schema.ts:616).                                        *)
(*                                                                         *)
(* JavaScript values: objects are functions over the keys they own, a      *)
(* missing key reads as Undefined, null is Null.  Times are integers in    *)
(* units of twelve hours (43200000 ms).                                    *)
(***************************************************************************)
EXTENDS Integers, Sequences, FiniteSets, TLC

VARIABLES isDemoMode, users, tickets, comments, ticketCounter, commentCounter,
          now, req, res

store == <<users, tickets, comments, ticketCounter, commentCounter>>
vars == <<isDemoMode, users, tickets, comments, ticketCounter, commentCounter,
          now, req, res>>

\* ---------------------------------------------------------------- bounds
\* how much may happen after the store is constructed (see Activity)
MaxActivity == 2

\* ---------------------------------------------------------- JS values
Undefined == "undefined"
Null == "null"
\* a JSON value of the wrong type for the field that carries it
BadType == "<ill-typed>"
\* parseInt of a path segment that is not a number
NaN == 0 - 1

Get(o, k) == IF k \in DOMAIN o THEN o[k] ELSE Undefined

\* { ...a, ...b }
Spread(a, b) ==
  [k \in DOMAIN a \cup DOMAIN b |-> IF k \in DOMAIN b THEN b[k] ELSE a[k]]

\* Map.prototype.set
MapSet(m, k, v) == [x \in DOMAIN m \cup {k} |-> IF x = k THEN v ELSE m[x]]

Pick(o, keys) == [k \in DOMAIN o \cap keys |-> o[k]]

\* the ids of a Map<number, _> in iteration order (insertion order; every
\* insertion of the store uses the next value of a counter)
RECURSIVE KeysAscending(_)
KeysAscending(S) ==
  IF S = {} THEN <<>>
  ELSE LET m == CHOOSE x \in S : \A y \in S : x <= y
       IN <<m>> \o KeysAscending(S \ {m})

\* Array.prototype.sort((a, b) => b.createdAt - a.createdAt): stable
RECURSIVE InsertByCreatedDesc(_, _)
InsertByCreatedDesc(sorted, x) ==
  IF sorted = <<>> THEN <<x>>
  ELSE IF Head(sorted).createdAt >= x.createdAt
       THEN <<Head(sorted)>> \o InsertByCreatedDesc(Tail(sorted), x)
       ELSE <<x>> \o sorted

RECURSIVE SortByCreatedDesc(_)
SortByCreatedDesc(s) ==
  IF s = <<>> THEN <<>>
  ELSE InsertByCreatedDesc(SortByCreatedDesc(SubSeq(s, 1, Len(s) - 1)), s[Len(s)])

\* ------------------------------------------------------------- demo.ts
demoUsers ==
  [student |-> [id |-> "student1", role |-> "student"],
   admin   |-> [id |-> "admin1", role |-> "admin"]]

\* req.query.role || 'student'
queryRole(r) == IF r.role = Undefined THEN "student" ELSE r.role

\* getDemoUser(role) is demoUsers[role]: undefined for any other role name
demoUserKnown(r) == queryRole(r) \in DOMAIN demoUsers

getDemoUser(role) == demoUsers[role]

\* --------------------------------------------------------- schema.ts
\* createInsertSchema(tickets).omit({id, createdAt, updatedAt}): the text
\* columns are strings, the columns with a default or without notNull are
\* optional, unknown keys are stripped; no default is filled in
TicketRequired == {"subject", "description", "issueType", "priority", "submitterId"}
TicketOptional == {"status", "location", "assignedToId"}
TicketNullable == {"location", "assignedToId"}

validField(o, k, nullable) ==
  /\ o[k] # BadType
  /\ o[k] = Null => k \in nullable

insertTicketSchemaOk(o) ==
  /\ \A k \in TicketRequired : k \in DOMAIN o /\ o[k] # Undefined /\ validField(o, k, TicketNullable)
  /\ \A k \in TicketOptional \cap DOMAIN o : o[k] = Undefined \/ validField(o, k, TicketNullable)

insertTicketSchema(o) == Pick(o, TicketRequired \cup TicketOptional)

\* createInsertSchema(tickets).omit({id, createdAt, submitterId}).partial()
UpdateKeys == {"subject", "description", "issueType", "priority", "status",
               "location", "assignedToId", "updatedAt"}

\* updatedAt is a timestamp column, z.date(): a JSON body carries strings, so
\* a body that has the key never parses
updateTicketSchemaOk(o) ==
  /\ "updatedAt" \notin DOMAIN o
  /\ \A k \in UpdateKeys \cap DOMAIN o : o[k] = Undefined \/ validField(o, k, TicketNullable)

\* the schema filling in the column default of status
updateTicketSchemaDefaults(o) == Spread([status |-> "new"], Pick(o, UpdateKeys))

\* the schema without .omit(): every key of the body reaches the store
updateTicketSchemaKeepsAll(o) == o

updateTicketSchema(o) == Pick(o, UpdateKeys)

\* createInsertSchema(ticketComments).omit({id, createdAt})
CommentKeys == {"ticketId", "userId", "comment", "isInternal"}

insertCommentSchemaOk(o) ==
  /\ "ticketId" \in DOMAIN o /\ o.ticketId # NaN
  /\ "userId" \in DOMAIN o /\ o.userId # Undefined
  /\ "comment" \in DOMAIN o /\ o.comment # BadType
  /\ "isInternal" \in DOMAIN o => o.isInternal \in BOOLEAN

insertCommentSchema(o) == Pick(o, CommentKeys)

\* ------------------------------------------------- MemStorage (schema.ts)
\* user?.role for user = this.users.get(id)
userRole(id) == IF id \in DOMAIN users THEN Get(users[id], "role") ELSE Undefined

\* the id taken from the size of the map instead of the counter
createTicketBySize(ticket) ==
  Spread(ticket, [id |-> Cardinality(DOMAIN tickets), createdAt |-> now, updatedAt |-> now])

createTicket(ticket) ==
  Spread(ticket, [id |-> ticketCounter, createdAt |-> now, updatedAt |-> now])

\* the joins of getTicketById / getTicketsByUser / getAllTickets: the ids are
\* looked up in this.users, the join carries the role found (or undefined)
withSubmitter(t) ==
  Spread(t, [submitter |-> userRole(t.submitterId),
             assignee  |-> IF Get(t, "assignedToId") \in {Undefined, Null}
                           THEN Undefined
                           ELSE userRole(t.assignedToId)])

ticketExists(id) == id \in DOMAIN tickets

getTicketById(id) == withSubmitter(tickets[id])

\* Array.from(this.tickets.values()), in the Map's iteration order
ticketValues ==
  LET ids == KeysAscending(DOMAIN tickets) IN [i \in 1..Len(ids) |-> tickets[ids[i]]]

joined(list) == [i \in 1..Len(list) |-> withSubmitter(list[i])]

getTicketsByUser(userId) ==
  joined(SortByCreatedDesc(SelectSeq(ticketValues, LAMBDA t : t.submitterId = userId)))

getAllTickets == joined(SortByCreatedDesc(ticketValues))

\* userId ? ...filter(t => t.submitterId === userId) : all the values
getTicketStats(userId) ==
  LET list == IF userId = Undefined THEN ticketValues
              ELSE SelectSeq(ticketValues, LAMBDA t : t.submitterId = userId)
  IN [total      |-> Len(list),
      new        |-> Len(SelectSeq(list, LAMBDA t : Get(t, "status") = "new")),
      inProgress |-> Len(SelectSeq(list, LAMBDA t : Get(t, "status") = "in-progress")),
      resolved   |-> Len(SelectSeq(list, LAMBDA t : Get(t, "status") = "resolved")),
      high       |-> Len(SelectSeq(list, LAMBDA t : t.priority \in {"high", "critical"}))]

getAdminStats ==
  [newTickets   |-> Len(SelectSeq(ticketValues, LAMBDA t : Get(t, "status") = "new")),
   inProgress   |-> Len(SelectSeq(ticketValues, LAMBDA t : Get(t, "status") = "in-progress")),
   highPriority |-> Len(SelectSeq(ticketValues, LAMBDA t : t.priority \in {"high", "critical"})),
   assignedToMe |-> 0,
   avgResolution |-> "2.1d"]

\* Array.from(this.users.values()).filter(user => user.role === "admin")
getITStaff == {u \in DOMAIN users : Get(users[u], "role") = "admin"}

\* the time of the call written to createdAt instead of updatedAt
updateTicketStampsCreated(id, updates) ==
  Spread(Spread(tickets[id], updates), [createdAt |-> now])

\* updates spread after the time of the call
updateTicketUpdatesLast(id, updates) ==
  Spread(Spread(tickets[id], [updatedAt |-> now]), updates)

\* a call that changes no field leaves updatedAt alone
updateTicketSkipsNoop(id, updates) ==
  IF Spread(tickets[id], updates) = tickets[id]
  THEN tickets[id]
  ELSE Spread(Spread(tickets[id], updates), [updatedAt |-> now])

updateTicket(id, updates) ==
  Spread(Spread(tickets[id], updates), [updatedAt |-> now])

addComment(comment) ==
  Spread(comment, [id |-> commentCounter, createdAt |-> now])

getTicketComments(ticketId) ==
  LET ids == KeysAscending({c \in DOMAIN comments : comments[c].ticketId = ticketId})
      all == [i \in 1..Len(ids) |-> comments[ids[i]]]
      sorted == SortByCreatedDesc(all)
  IN [i \in 1..Len(sorted) |-> Spread(sorted[i], [user |-> userRole(sorted[i].userId)])]

\* ------------------------------------------------- routes (part_003)
\* the claims.sub of the session, or the demo user of the role in the query
getUserId(r) == IF isDemoMode THEN getDemoUser(queryRole(r)).id ELSE r.sub

\* getUserId(req) throws a TypeError in demo mode when the role names no
\* demo user (undefined.id); each handler calls it inside its try block
getUserIdThrows(r) == isDemoMode /\ ~demoUserKnown(r)

\* isDemoMode ? getDemoUser(...) : await storage.getUser(userId), then ?.role
requestRole(r) ==
  IF isDemoMode THEN getDemoUser(queryRole(r)).role ELSE userRole(getUserId(r))

\* replitAuth.isAuthenticated: a request without a session is answered 401
isAuthenticated(r) == r.sub # Undefined

requireAuth(r) == IF isDemoMode THEN TRUE ELSE isAuthenticated(r)

Reply(status, body) == [status |-> status, body |-> body]

\* what a handler leaves behind: the maps and counters of the store and the
\* response
Outcome(t, c, tc, cc, r) ==
  [tickets |-> t, comments |-> c, ticketCounter |-> tc, commentCounter |-> cc, res |-> r]

Unchanged(r) == Outcome(tickets, comments, ticketCounter, commentCounter, r)

\* app.post('/api/tickets')
postTicket(r) ==
  IF ~requireAuth(r) THEN Unchanged(Reply(401, <<>>))
  ELSE IF getUserIdThrows(r) THEN Unchanged(Reply(500, <<>>))
  ELSE LET data == Spread(r.body, [submitterId |-> getUserId(r)])
       IN IF ~insertTicketSchemaOk(data) THEN Unchanged(Reply(400, <<>>))
          ELSE LET ticket == createTicket(insertTicketSchema(data))
               IN Outcome(MapSet(tickets, ticket.id, ticket), comments,
                          ticketCounter + 1, commentCounter, Reply(200, <<ticket>>))

\* the handler without its access check (lines 115-117 left out)
getTicketNoGate(r) ==
  IF ~requireAuth(r) THEN Unchanged(Reply(401, <<>>))
  ELSE IF getUserIdThrows(r) THEN Unchanged(Reply(500, <<>>))
  ELSE IF ~ticketExists(r.id) THEN Unchanged(Reply(404, <<>>))
  ELSE Unchanged(Reply(200, <<getTicketById(r.id)>>))

\* app.get('/api/tickets/:id')
getTicket(r) ==
  IF ~requireAuth(r) THEN Unchanged(Reply(401, <<>>))
  ELSE IF getUserIdThrows(r) THEN Unchanged(Reply(500, <<>>))
  ELSE IF ~ticketExists(r.id) THEN Unchanged(Reply(404, <<>>))
  ELSE IF requestRole(r) # "admin" /\ tickets[r.id].submitterId # getUserId(r)
       THEN Unchanged(Reply(403, <<>>))
  ELSE Unchanged(Reply(200, <<getTicketById(r.id)>>))

\* the handler with the read gate in place of the admin check: the submitter
\* may write
patchTicketOwnerMayWrite(r) ==
  IF ~requireAuth(r) THEN Unchanged(Reply(401, <<>>))
  ELSE IF getUserIdThrows(r) THEN Unchanged(Reply(500, <<>>))
  ELSE IF ~ticketExists(r.id) THEN Unchanged(Reply(404, <<>>))
  ELSE IF requestRole(r) # "admin" /\ tickets[r.id].submitterId # getUserId(r)
       THEN Unchanged(Reply(403, <<>>))
  ELSE IF ~updateTicketSchemaOk(r.body) THEN Unchanged(Reply(400, <<>>))
  ELSE LET updated == updateTicket(r.id, updateTicketSchema(r.body))
       IN Outcome(MapSet(tickets, r.id, updated), comments,
                  ticketCounter, commentCounter, Reply(200, <<updated>>))

\* the handler touching the ticket before it validates the body
patchTicketTouchFirst(r) ==
  IF ~requireAuth(r) THEN Unchanged(Reply(401, <<>>))
  ELSE IF getUserIdThrows(r) THEN Unchanged(Reply(500, <<>>))
  ELSE IF requestRole(r) # "admin" THEN Unchanged(Reply(403, <<>>))
  ELSE IF ~ticketExists(r.id) THEN Unchanged(Reply(500, <<>>))
  ELSE LET touched == MapSet(tickets, r.id, updateTicket(r.id, <<>>))
       IN IF ~updateTicketSchemaOk(r.body)
          THEN Outcome(touched, comments, ticketCounter, commentCounter, Reply(400, <<>>))
          ELSE LET updated == updateTicket(r.id, updateTicketSchema(r.body))
               IN Outcome(MapSet(tickets, r.id, updated), comments,
                          ticketCounter, commentCounter, Reply(200, <<updated>>))

\* the handler with a forward-only status order: a status that comes before
\* the ticket's present one is refused
patchTicketForwardOnly(r) ==
  LET order == <<"new", "in-progress", "resolved", "closed">>
      rank(st) == IF \E i \in 1..Len(order) : order[i] = st
                  THEN CHOOSE i \in 1..Len(order) : order[i] = st
                  ELSE 0
  IN IF ~requireAuth(r) THEN Unchanged(Reply(401, <<>>))
     ELSE IF getUserIdThrows(r) THEN Unchanged(Reply(500, <<>>))
     ELSE IF requestRole(r) # "admin" THEN Unchanged(Reply(403, <<>>))
     ELSE IF ~updateTicketSchemaOk(r.body) THEN Unchanged(Reply(400, <<>>))
     ELSE IF ~ticketExists(r.id) THEN Unchanged(Reply(500, <<>>))
     ELSE IF "status" \in DOMAIN r.body
             /\ rank(r.body.status) < rank(Get(tickets[r.id], "status"))
          THEN Unchanged(Reply(400, <<>>))
     ELSE LET updated == updateTicket(r.id, updateTicketSchema(r.body))
          IN Outcome(MapSet(tickets, r.id, updated), comments,
                     ticketCounter, commentCounter, Reply(200, <<updated>>))

\* app.patch('/api/tickets/:id')
patchTicket(r) ==
  IF ~requireAuth(r) THEN Unchanged(Reply(401, <<>>))
  ELSE IF getUserIdThrows(r) THEN Unchanged(Reply(500, <<>>))
  ELSE IF requestRole(r) # "admin" THEN Unchanged(Reply(403, <<>>))
  ELSE IF ~updateTicketSchemaOk(r.body) THEN Unchanged(Reply(400, <<>>))
  ELSE IF ~ticketExists(r.id) THEN Unchanged(Reply(500, <<>>))
  ELSE LET updated == updateTicket(r.id, updateTicketSchema(r.body))
       IN Outcome(MapSet(tickets, r.id, updated), comments,
                  ticketCounter, commentCounter, Reply(200, <<updated>>))

\* the handler over an addComment that reads the counter without advancing it
postCommentSameId(r) ==
  IF ~requireAuth(r) THEN Unchanged(Reply(401, <<>>))
  ELSE IF getUserIdThrows(r) THEN Unchanged(Reply(500, <<>>))
  ELSE LET data == Spread(r.body, [ticketId |-> r.id, userId |-> getUserId(r)])
       IN IF ~insertCommentSchemaOk(data) THEN Unchanged(Reply(400, <<>>))
          ELSE LET comment == addComment(insertCommentSchema(data))
               IN Outcome(tickets, MapSet(comments, comment.id, comment),
                          ticketCounter, commentCounter, Reply(200, <<comment>>))

\* the body spread last: its ticketId and userId override the path's and the
\* caller's
postCommentBodyWins(r) ==
  IF ~requireAuth(r) THEN Unchanged(Reply(401, <<>>))
  ELSE IF getUserIdThrows(r) THEN Unchanged(Reply(500, <<>>))
  ELSE LET data == Spread([ticketId |-> r.id, userId |-> getUserId(r)], r.body)
       IN IF ~insertCommentSchemaOk(data) THEN Unchanged(Reply(400, <<>>))
          ELSE LET comment == addComment(insertCommentSchema(data))
               IN Outcome(tickets, MapSet(comments, comment.id, comment),
                          ticketCounter, commentCounter + 1, Reply(200, <<comment>>))

\* app.post('/api/tickets/:id/comments')
postComment(r) ==
  IF ~requireAuth(r) THEN Unchanged(Reply(401, <<>>))
  ELSE IF getUserIdThrows(r) THEN Unchanged(Reply(500, <<>>))
  ELSE LET data == Spread(r.body, [ticketId |-> r.id, userId |-> getUserId(r)])
       IN IF ~insertCommentSchemaOk(data) THEN Unchanged(Reply(400, <<>>))
          ELSE LET comment == addComment(insertCommentSchema(data))
               IN Outcome(tickets, MapSet(comments, comment.id, comment),
                          ticketCounter, commentCounter + 1, Reply(200, <<comment>>))

\* the handler without its access check (lines 187-189 left out)
getCommentsNoGate(r) ==
  IF ~requireAuth(r) THEN Unchanged(Reply(401, <<>>))
  ELSE IF getUserIdThrows(r) THEN Unchanged(Reply(500, <<>>))
  ELSE IF ~ticketExists(r.id) THEN Unchanged(Reply(404, <<>>))
  ELSE Unchanged(Reply(200, getTicketComments(r.id)))

\* app.get('/api/tickets/:id/comments')
getComments(r) ==
  IF ~requireAuth(r) THEN Unchanged(Reply(401, <<>>))
  ELSE IF getUserIdThrows(r) THEN Unchanged(Reply(500, <<>>))
  ELSE IF ~ticketExists(r.id) THEN Unchanged(Reply(404, <<>>))
  ELSE IF requestRole(r) # "admin" /\ tickets[r.id].submitterId # getUserId(r)
       THEN Unchanged(Reply(403, <<>>))
  ELSE Unchanged(Reply(200, getTicketComments(r.id)))

\* the handler without the role branch: every caller gets getAllTickets()
getTicketsAllForEveryone(r) ==
  IF ~requireAuth(r) THEN Unchanged(Reply(401, <<>>))
  ELSE IF getUserIdThrows(r) THEN Unchanged(Reply(500, <<>>))
  ELSE Unchanged(Reply(200, getAllTickets))

\* app.get('/api/tickets')
getTickets(r) ==
  IF ~requireAuth(r) THEN Unchanged(Reply(401, <<>>))
  ELSE IF getUserIdThrows(r) THEN Unchanged(Reply(500, <<>>))
  ELSE IF requestRole(r) = "admin" THEN Unchanged(Reply(200, getAllTickets))
  ELSE Unchanged(Reply(200, getTicketsByUser(getUserId(r))))

\* app.get('/api/stats')
getStats(r) ==
  IF ~requireAuth(r) THEN Unchanged(Reply(401, <<>>))
  ELSE IF getUserIdThrows(r) THEN Unchanged(Reply(500, <<>>))
  ELSE IF requestRole(r) = "admin" THEN Unchanged(Reply(200, <<getAdminStats>>))
  ELSE Unchanged(Reply(200, <<getTicketStats(getUserId(r))>>))

\* app.get('/api/it-staff')
getStaff(r) ==
  IF ~requireAuth(r) THEN Unchanged(Reply(401, <<>>))
  ELSE IF getUserIdThrows(r) THEN Unchanged(Reply(500, <<>>))
  ELSE IF requestRole(r) # "admin" THEN Unchanged(Reply(403, <<>>))
  ELSE Unchanged(Reply(200, <<getITStaff>>))

\* ------------------------------------------------------------ inputs
\* a request carries the session's claims.sub (Undefined without a session)
\* and the role of the query string (Undefined when the query has none)
DemoCallers ==
  {[sub |-> Undefined, role |-> Undefined],
   [sub |-> Undefined, role |-> "admin"],
   [sub |-> Undefined, role |-> "faculty"]}

SessionCallers ==
  {[sub |-> Undefined, role |-> Undefined],
   [sub |-> "student1", role |-> Undefined],
   [sub |-> "admin1", role |-> Undefined],
   [sub |-> "guest2", role |-> Undefined]}

\* demo mode never reads the session and the other mode never reads the role
Callers == IF isDemoMode THEN DemoCallers ELSE SessionCallers

\* the first sample ticket, the first ticket a request creates, and an id
\* that no ticket ever has
PathIds == {1, 3, 3 + MaxActivity}

PrinterJam ==
  [subject |-> "Printer jam", description |-> "Tray 2 stuck",
   issueType |-> "printing", priority |-> "low"]

TicketBodies ==
  {PrinterJam,
   Spread(PrinterJam, [status |-> "resolved", assignedToId |-> "admin1",
                       submitterId |-> "admin1"]),
   [subject |-> "Printer jam", description |-> "Tray 2 stuck", issueType |-> "printing"]}

PatchBodies ==
  {[status |-> "in-progress", assignedToId |-> "admin1"],
   [priority |-> BadType]}

\* comments are posted to the first sample ticket or to the id no ticket has
CommentPathIds == {1, 3 + MaxActivity}

CommentBodies ==
  {[comment |-> "hello"],
   [comment |-> "note", isInternal |-> TRUE],
   [isInternal |-> FALSE]}

UpsertIds == {"guest2"}
UpsertRoles == {"faculty"}

Request(op, c, id, body) ==
  [op |-> op, sub |-> c.sub, role |-> c.role, id |-> id, body |-> body]

\* no request is being served
NoRequest == Request("none", [sub |-> Undefined, role |-> Undefined], NaN, <<>>)
NoReply == Reply(0, <<>>)

\* what has happened since the store was constructed: tickets and comments
\* created, users upserted, clock ticks
Activity ==
  (ticketCounter - 3) + (commentCounter - 1) + (Cardinality(DOMAIN users) - 2) + (now - 4)

\* ------------------------------------------------------ state machine
\* new MemStorage(): the two sample users, the two sample tickets (created
\* one and two days before, updated one day and twelve hours before)
Init ==
  /\ isDemoMode \in BOOLEAN
  /\ now = 4
  /\ users = [u \in {"student1", "admin1"} |->
                [id |-> u, role |-> IF u = "admin1" THEN "admin" ELSE "student"]]
  /\ tickets =
       [i \in {1, 2} |->
          IF i = 1
          THEN [id |-> 1, subject |-> "Computer won't start",
                description |-> "My computer in room 201 won't turn on",
                issueType |-> "hardware", priority |-> "high", status |-> "new",
                location |-> "Room 201, Computer Lab", submitterId |-> "student1",
                assignedToId |-> Null, createdAt |-> now - 2, updatedAt |-> now - 2]
          ELSE [id |-> 2, subject |-> "Email not working",
                description |-> "I can't access my university email account",
                issueType |-> "email", priority |-> "medium", status |-> "in-progress",
                location |-> "Library Study Room 3", submitterId |-> "student1",
                assignedToId |-> "admin1", createdAt |-> now - 4, updatedAt |-> now - 1]]
  /\ comments = <<>>
  /\ ticketCounter = 3
  /\ commentCounter = 1
  /\ req = NoRequest
  /\ res = NoReply

\* a handler runs from the arrival of its request to its res.json() without
\* another handler in between: the awaits of MemStorage never wait for I/O
Apply(r, out) ==
  /\ req = NoRequest
  /\ req' = r
  /\ tickets' = out.tickets
  /\ comments' = out.comments
  /\ ticketCounter' = out.ticketCounter
  /\ commentCounter' = out.commentCounter
  /\ res' = out.res
  /\ UNCHANGED <<isDemoMode, users, now>>

\* the clock of new Date()
Tick ==
  /\ req = NoRequest
  /\ Activity < MaxActivity
  /\ now' = now + 1
  /\ UNCHANGED <<isDemoMode, users, tickets, comments, ticketCounter, commentCounter, req, res>>

\* MemStorage.upsertUser, called on login
UpsertUser ==
  \E id \in UpsertIds, role \in UpsertRoles :
    /\ req = NoRequest
    /\ Activity < MaxActivity
    /\ users' = MapSet(users, id, [id |-> id, role |-> role])
    /\ UNCHANGED <<isDemoMode, tickets, comments, ticketCounter, commentCounter, now, req, res>>

PostTicket ==
  \E c \in Callers, b \in TicketBodies :
    /\ Activity < MaxActivity
    /\ LET r == Request("POST /tickets", c, NaN, b) IN Apply(r, postTicket(r))

GetTicket ==
  \E c \in Callers, id \in PathIds :
    LET r == Request("GET /tickets/:id", c, id, <<>>) IN Apply(r, getTicket(r))

PatchTicket ==
  \E c \in Callers, id \in PathIds, b \in PatchBodies :
    LET r == Request("PATCH /tickets/:id", c, id, b) IN Apply(r, patchTicket(r))

PostComment ==
  \E c \in Callers, id \in CommentPathIds, b \in CommentBodies :
    /\ Activity < MaxActivity
    /\ LET r == Request("POST /tickets/:id/comments", c, id, b) IN Apply(r, postComment(r))

GetComments ==
  \E c \in Callers, id \in PathIds :
    LET r == Request("GET /tickets/:id/comments", c, id, <<>>) IN Apply(r, getComments(r))

GetTickets ==
  \E c \in Callers :
    LET r == Request("GET /tickets", c, NaN, <<>>) IN Apply(r, getTickets(r))

GetStats ==
  \E c \in Callers :
    LET r == Request("GET /stats", c, NaN, <<>>) IN Apply(r, getStats(r))

GetStaff ==
  \E c \in Callers :
    LET r == Request("GET /it-staff", c, NaN, <<>>) IN Apply(r, getStaff(r))

\* the response has been sent: the server waits for the next request
Finish ==
  /\ req # NoRequest
  /\ req' = NoRequest
  /\ res' = NoReply
  /\ UNCHANGED <<isDemoMode, users, tickets, comments, ticketCounter, commentCounter, now>>

Next ==
  \/ Finish
  \/ Tick
  \/ UpsertUser
  \/ PostTicket
  \/ GetTicket
  \/ PatchTicket
  \/ PostComment
  \/ GetComments
  \/ GetTickets
  \/ GetStats
  \/ GetStaff

Spec == Init /\ [][Next]_vars

\* ------------------------------------------- the update path in depth
\* bodies of PATCH /api/tickets/:id: a status and an assignee, an assignee
\* who is not staff, a status outside the documented four next to the keys
\* the schema omits, and a body that carries updatedAt
UpdateBodies ==
  {[status |-> "in-progress", assignedToId |-> "admin1"],
   [assignedToId |-> "student1"],
   [status |-> "on-hold", submitterId |-> "guest2", id |-> 2],
   [status |-> "resolved", updatedAt |-> "2020-01-01T00:00:00.000Z"]}

PatchUpdate ==
  \E c \in Callers, id \in PathIds, b \in UpdateBodies :
    LET r == Request("PATCH /tickets/:id", c, id, b) IN Apply(r, patchTicket(r))

UpdateNext ==
  \/ Finish
  \/ Tick
  \/ PostTicket
  \/ GetTicket
  \/ PatchUpdate

UpdateSpec == Init /\ [][UpdateNext]_vars

\* ------------------------------------------------- the status changes
\* bodies of PATCH /api/tickets/:id that set one of the four statuses
StatusBodies ==
  {[status |-> "new"], [status |-> "in-progress"],
   [status |-> "resolved"], [status |-> "closed"]}

PatchStatus ==
  \E c \in Callers, id \in PathIds, b \in StatusBodies :
    LET r == Request("PATCH /tickets/:id", c, id, b) IN Apply(r, patchTicket(r))

StatusNext ==
  \/ Finish
  \/ Tick
  \/ PatchStatus

StatusSpec == Init /\ [][StatusNext]_vars

\* ------------------------------------- comments with a forged author
\* bodies of POST /api/tickets/:id/comments that carry a userId and a
\* ticketId of their own
ForgedBodies ==
  {[comment |-> "hello"],
   [comment |-> "hello", userId |-> "admin1", ticketId |-> 2],
   [comment |-> "note", isInternal |-> TRUE, userId |-> "student1"],
   [comment |-> "note", ticketId |-> 1]}

PostForged ==
  \E c \in Callers, id \in CommentPathIds, b \in ForgedBodies :
    /\ Activity < MaxActivity
    /\ LET r == Request("POST /tickets/:id/comments", c, id, b) IN Apply(r, postComment(r))

CommentNext == Finish \/ Tick \/ PostForged

CommentSpec == Init /\ [][CommentNext]_vars

\* ------------------------------------------- two updates in flight
\* two clients, each with one PATCH /api/tickets/:id on the first sample
\* ticket: here req and res hold one request and one response per client
ConcClients == {"a", "b"}

ConcIds == {1}

ConcBodies ==
  {[status |-> "in-progress"],
   [assignedToId |-> "admin1"],
   [status |-> "resolved", assignedToId |-> "student1"]}

ConcInit ==
  /\ isDemoMode \in BOOLEAN
  /\ now = 4
  /\ users = [u \in {"student1", "admin1"} |->
                [id |-> u, role |-> IF u = "admin1" THEN "admin" ELSE "student"]]
  /\ tickets =
       [i \in {1, 2} |->
          IF i = 1
          THEN [id |-> 1, subject |-> "Computer won't start",
                description |-> "My computer in room 201 won't turn on",
                issueType |-> "hardware", priority |-> "high", status |-> "new",
                location |-> "Room 201, Computer Lab", submitterId |-> "student1",
                assignedToId |-> Null, createdAt |-> now - 2, updatedAt |-> now - 2]
          ELSE [id |-> 2, subject |-> "Email not working",
                description |-> "I can't access my university email account",
                issueType |-> "email", priority |-> "medium", status |-> "in-progress",
                location |-> "Library Study Room 3", submitterId |-> "student1",
                assignedToId |-> "admin1", createdAt |-> now - 4, updatedAt |-> now - 1]]
  /\ comments = <<>>
  /\ ticketCounter = 3
  /\ commentCounter = 1
  /\ req = [p \in ConcClients |-> NoRequest]
  /\ res = [p \in ConcClients |-> NoReply]

\* the request of client p arrives; the handler runs up to its first await,
\* storage.getUser(userId). seen is the ticket as stored at that time: the
\* handler does not read it
ConcArrive(p) ==
  \E c \in Callers, id \in ConcIds, b \in ConcBodies :
    /\ req[p] = NoRequest
    /\ req' = [req EXCEPT ![p] = Spread(Request("PATCH /tickets/:id", c, id, b),
                                         [seen |-> tickets[id]])]
    /\ UNCHANGED <<isDemoMode, users, tickets, comments, ticketCounter, commentCounter,
                   now, res>>

\* the update written over the ticket that was stored when the request arrived
ConcUpdateStale(p) ==
  /\ req[p] # NoRequest
  /\ res[p] = NoReply
  /\ LET out == patchTicket(req[p])
         stale == Spread(Spread(req[p].seen, updateTicketSchema(req[p].body)),
                         [updatedAt |-> now])
     IN IF out.res.status = 200
        THEN /\ tickets' = MapSet(tickets, req[p].id, stale)
             /\ res' = [res EXCEPT ![p] = Reply(200, <<stale>>)]
        ELSE /\ tickets' = out.tickets
             /\ res' = [res EXCEPT ![p] = out.res]
  /\ UNCHANGED <<isDemoMode, users, comments, ticketCounter, commentCounter, now, req>>

\* the handler of client p goes on after the await: the admin check, the
\* parse and storage.updateTicket, whose body has no await of its own
ConcUpdate(p) ==
  /\ req[p] # NoRequest
  /\ res[p] = NoReply
  /\ tickets' = patchTicket(req[p]).tickets
  /\ res' = [res EXCEPT ![p] = patchTicket(req[p]).res]
  /\ UNCHANGED <<isDemoMode, users, comments, ticketCounter, commentCounter, now, req>>

ConcTick ==
  /\ now < 4 + MaxActivity
  /\ now' = now + 1
  /\ UNCHANGED <<isDemoMode, users, tickets, comments, ticketCounter, commentCounter, req, res>>

ConcNext ==
  \/ ConcTick
  \/ \E p \in ConcClients : ConcArrive(p)
  \/ \E p \in ConcClients : ConcUpdate(p)

ConcSpec == ConcInit /\ [][ConcNext]_vars

\* ------------------------------------------ the storage called directly
\* values of type UpdateTicket: a status, an assignee, no field, and an
\* updatedAt that is a Date
StoreUpdates ==
  {[status |-> "resolved"],
   [assignedToId |-> "admin1"],
   <<>>,
   [updatedAt |-> 0]}

\* values of type InsertTicket
StoreTickets == {Spread(PrinterJam, [submitterId |-> "student1"])}

\* a call of a method of the exported storage, not made through a route
StoreCall(op, id, arg) ==
  Request(op, [sub |-> Undefined, role |-> Undefined], id, arg)

Returned(v) == Reply(0, <<v>>)
Thrown(msg) == [status |-> 0, body |-> <<>>, error |-> msg]

StoreTick ==
  /\ Activity < MaxActivity
  /\ now' = now + 1
  /\ UNCHANGED <<isDemoMode, users, tickets, comments, ticketCounter, commentCounter, req, res>>

CallCreateTicket ==
  \E t \in StoreTickets :
    /\ Activity < MaxActivity
    /\ req' = StoreCall("createTicket", NaN, t)
    /\ tickets' = MapSet(tickets, createTicket(t).id, createTicket(t))
    /\ ticketCounter' = ticketCounter + 1
    /\ res' = Returned(createTicket(t))
    /\ UNCHANGED <<isDemoMode, users, comments, commentCounter, now>>

CallUpdateTicket ==
  \E id \in PathIds, u \in StoreUpdates :
    /\ req' = StoreCall("updateTicket", id, u)
    /\ IF ticketExists(id)
       THEN /\ tickets' = MapSet(tickets, id, updateTicket(id, u))
            /\ res' = Returned(updateTicket(id, u))
       ELSE /\ tickets' = tickets
            /\ res' = Thrown("Ticket not found")
    /\ UNCHANGED <<isDemoMode, users, comments, ticketCounter, commentCounter, now>>

StoreNext ==
  \/ StoreTick
  \/ CallCreateTicket
  \/ CallUpdateTicket

StoreSpec == Init /\ [][StoreNext]_vars

\* ------------------------------- DatabaseStorage: the statistics queries
\* the class behind the same IStorage interface that keeps the tickets in a
\* table: here `tickets` holds the rows, ticketCounter the serial of id, req
\* the statistics call in progress and res what its queries have returned
SqlTrue == "true"
SqlFalse == "false"

\* a = b and x OR y in SQL: NULL when the truth value is unknown
sqlEq(a, b) == IF a = Null \/ b = Null THEN Null ELSE IF a = b THEN SqlTrue ELSE SqlFalse

sqlOr(x, y) ==
  IF x = SqlTrue \/ y = SqlTrue THEN SqlTrue
  ELSE IF x = Null \/ y = Null THEN Null
  ELSE SqlFalse

\* .where(whereClause): every row when the clause is undefined
dbWhereSubmitter(userId) ==
  IF userId = Undefined THEN DOMAIN tickets
  ELSE {id \in DOMAIN tickets : sqlEq(tickets[id].submitterId, userId) = SqlTrue}

\* one SELECT; count() counts the rows, count(expression) the rows where the
\* expression is not NULL
dbGetTicketStats(userId) ==
  LET rows == dbWhereSubmitter(userId)
  IN [total      |-> Cardinality(rows),
      new        |-> Cardinality({id \in rows : sqlEq(tickets[id].status, "new") # Null}),
      inProgress |-> Cardinality({id \in rows : sqlEq(tickets[id].status, "in-progress") # Null}),
      resolved   |-> Cardinality({id \in rows : sqlEq(tickets[id].status, "resolved") # Null}),
      high       |-> Cardinality({id \in rows :
                        sqlOr(sqlEq(tickets[id].priority, "high"),
                              sqlEq(tickets[id].priority, "critical")) # Null})]

\* select count() from tickets where status = s
dbCountStatus(s) ==
  Cardinality({id \in DOMAIN tickets : sqlEq(tickets[id].status, s) = SqlTrue})

dbCountHighPriority ==
  Cardinality({id \in DOMAIN tickets :
     sqlOr(sqlEq(tickets[id].priority, "high"),
           sqlEq(tickets[id].priority, "critical")) = SqlTrue})

\* insert ... values(ticket) returning: the table fills in the serial id and
\* the defaults of the columns the values leave out
dbCreateTicket(ticket) ==
  Spread(Spread([status |-> "new", location |-> Null, assignedToId |-> Null,
                 createdAt |-> now, updatedAt |-> now], ticket),
         [id |-> ticketCounter])

\* update ... set({ ...updates, updatedAt: new Date() }) where id = id
dbUpdateTicket(id, updates) ==
  Spread(tickets[id], Spread(updates, [updatedAt |-> now]))

DbTickets ==
  {Spread(PrinterJam, [submitterId |-> "student1"]),
   Spread(PrinterJam, [priority |-> "critical", submitterId |-> "admin1"])}

DbUpdates == {[status |-> "in-progress"], [status |-> "resolved"]}

DbUserIds == {Undefined, "student1"}

\* an empty tickets table; the users table holds the two users
DbInit ==
  /\ isDemoMode = FALSE
  /\ now = 4
  /\ users = [u \in {"student1", "admin1"} |->
                [id |-> u, role |-> IF u = "admin1" THEN "admin" ELSE "student"]]
  /\ tickets = <<>>
  /\ comments = <<>>
  /\ ticketCounter = 1
  /\ commentCounter = 1
  /\ req = NoRequest
  /\ res = NoReply

\* the statements of other requests commit between the awaits of a call
DbCreateTicket ==
  \E t \in DbTickets :
    /\ ticketCounter <= MaxActivity
    /\ tickets' = MapSet(tickets, ticketCounter, dbCreateTicket(t))
    /\ ticketCounter' = ticketCounter + 1
    /\ UNCHANGED <<isDemoMode, users, comments, commentCounter, now, req, res>>

DbUpdateTicket ==
  \E id \in DOMAIN tickets, u \in DbUpdates :
    /\ tickets' = MapSet(tickets, id, dbUpdateTicket(id, u))
    /\ UNCHANGED <<isDemoMode, users, comments, ticketCounter, commentCounter, now, req, res>>

DbGetTicketStats ==
  \E u \in DbUserIds :
    /\ req = NoRequest
    /\ req' = StoreCall("getTicketStats", NaN, <<u>>)
    /\ res' = Returned(dbGetTicketStats(u))
    /\ UNCHANGED <<store, isDemoMode, now>>

\* getAdminStats awaits three SELECTs, one after the other
DbAdminStatsNew ==
  /\ req = NoRequest
  /\ req' = StoreCall("getAdminStats", NaN, <<>>)
  /\ res' = Returned([newTickets |-> dbCountStatus("new")])
  /\ UNCHANGED <<store, isDemoMode, now>>

DbAdminStatsInProgress ==
  /\ req.op = "getAdminStats"
  /\ DOMAIN res.body[1] = {"newTickets"}
  /\ res' = Returned(Spread(res.body[1], [inProgress |-> dbCountStatus("in-progress")]))
  /\ UNCHANGED <<store, isDemoMode, now, req>>

DbAdminStatsHigh ==
  /\ req.op = "getAdminStats"
  /\ DOMAIN res.body[1] = {"newTickets", "inProgress"}
  /\ res' = Returned(Spread(res.body[1],
                [highPriority |-> dbCountHighPriority, assignedToMe |-> 0,
                 avgResolution |-> "2.3d"]))
  /\ UNCHANGED <<store, isDemoMode, now, req>>

\* the call has all its counters and returns
DbReturn ==
  /\ req.op \in {"getTicketStats", "getAdminStats"}
  /\ {"high", "highPriority"} \cap DOMAIN res.body[1] # {}
  /\ req' = NoRequest
  /\ res' = NoReply
  /\ UNCHANGED <<store, isDemoMode, now>>

DbNext ==
  \/ DbCreateTicket
  \/ DbUpdateTicket
  \/ DbGetTicketStats
  \/ DbAdminStatsNew
  \/ DbAdminStatsInProgress
  \/ DbAdminStatsHigh
  \/ DbReturn

DbSpec == DbInit /\ [][DbNext]_vars

\* ------------------------------------------------------------ claims
\* the values the columns are documented to take
Statuses == {"new", "in-progress", "resolved", "closed"}
Priorities == {"low", "medium", "high", "critical"}

\* the request carries a principal: a session, or in demo mode a role that
\* names a demo user
HasPrincipal(r) == IF isDemoMode THEN demoUserKnown(r) ELSE r.sub # Undefined

IsAdmin(r) == HasPrincipal(r) /\ requestRole(r) = "admin"

\* the principal of r is the submitter of ticket id
IsSubmitter(r, id) == HasPrincipal(r) /\ tickets[id].submitterId = getUserId(r)

IsInternal(c) == "isInternal" \in DOMAIN c /\ c.isInternal = TRUE

\* the response carries the fields of ticket t
CarriesTicket(body, t) ==
  /\ Len(body) = 1
  /\ DOMAIN t \subseteq DOMAIN body[1]
  /\ \A k \in DOMAIN t : body[1][k] = t[k]

CommentsOf(id) == {c \in DOMAIN comments : comments[c].ticketId = id}

ListedIds(body) == {body[i].id : i \in 1..Len(body)}

\* C1: GET /tickets/{id} of an existing ticket returns the ticket's data if
\* and only if the principal is an admin or the ticket's submitter; every
\* other principal gets 403 and no data.
C1_ReadGate ==
  (req.op = "GET /tickets/:id" /\ HasPrincipal(req) /\ req.id \in DOMAIN tickets) =>
    IF IsAdmin(req) \/ IsSubmitter(req, req.id)
    THEN res.status = 200 /\ CarriesTicket(res.body, tickets[req.id])
    ELSE res.status = 403 /\ res.body = <<>>

C1_Witness ==
  /\ req.op = "GET /tickets/:id"
  /\ HasPrincipal(req)
  /\ req.id \in DOMAIN tickets
  /\ ~IsAdmin(req)
  /\ ~IsSubmitter(req, req.id)
  /\ res.status = 403

\* C2: PATCH /tickets/{id} changes a ticket only for an admin; every
\* non-admin principal, the ticket's submitter included, gets 403 and the
\* store is left as it was.
C2_WriteGate ==
  [][(req = NoRequest /\ req'.op = "PATCH /tickets/:id") =>
       /\ tickets' # tickets => IsAdmin(req')
       /\ (HasPrincipal(req') /\ ~IsAdmin(req')) =>
            (res'.status = 403 /\ res'.body = <<>> /\ UNCHANGED store)]_vars

C2_Witness ==
  /\ req.op = "PATCH /tickets/:id"
  /\ req.id \in DOMAIN tickets
  /\ ~IsAdmin(req)
  /\ IsSubmitter(req, req.id)
  /\ updateTicketSchemaOk(req.body)
  /\ res.status = 403

\* C3: GET /tickets/{id}/comments of an existing ticket returns a comment
\* list only to an admin or the ticket's submitter; any other principal gets
\* 403 and no comment.
C3_CommentListGate ==
  (req.op = "GET /tickets/:id/comments" /\ HasPrincipal(req) /\ req.id \in DOMAIN tickets) =>
    IF IsAdmin(req) \/ IsSubmitter(req, req.id)
    THEN res.status = 200 /\ ListedIds(res.body) \subseteq CommentsOf(req.id)
    ELSE res.status = 403 /\ res.body = <<>>

C3_Witness ==
  /\ req.op = "GET /tickets/:id/comments"
  /\ HasPrincipal(req)
  /\ req.id \in DOMAIN tickets
  /\ CommentsOf(req.id) # {}
  /\ ~IsAdmin(req)
  /\ ~IsSubmitter(req, req.id)
  /\ res.status = 403

\* C4: the comment list served to a non-admin is exactly the ticket's public
\* comments (none with isInternal = true); the list served to an admin is all
\* of the ticket's comments.
C4_InternalFiltered ==
  (req.op = "GET /tickets/:id/comments" /\ res.status = 200) =>
    /\ Len(res.body) = Cardinality(ListedIds(res.body))
    /\ ListedIds(res.body) =
         IF IsAdmin(req) THEN CommentsOf(req.id)
         ELSE {c \in CommentsOf(req.id) : ~IsInternal(comments[c])}

\* C5: a non-admin principal who is not the submitter of an existing ticket
\* cannot add a comment to it: POST /tickets/{id}/comments leaves the comment
\* store unchanged.
C5_CommentCreateGate ==
  [][(/\ req = NoRequest
      /\ req'.op = "POST /tickets/:id/comments"
      /\ req'.id \in DOMAIN tickets
      /\ HasPrincipal(req')
      /\ ~IsAdmin(req')
      /\ ~IsSubmitter(req', req'.id)) =>
       UNCHANGED <<comments, commentCounter>>]_vars

\* C6: every comment stored with isInternal = true is stored by a request of
\* an admin-role principal.
C6_InternalOnlyByAdmin ==
  [][\A c \in DOMAIN comments' \ DOMAIN comments :
       IsInternal(comments'[c]) => IsAdmin(req')]_vars

\* C7: a GET /tickets/{id} without an authenticated principal is answered 401
\* or 403 and never with ticket data.
C7_UnauthenticatedRead ==
  (req.op = "GET /tickets/:id" /\ req.sub = Undefined /\ req.id \in DOMAIN tickets) =>
    (res.status \in {401, 403} /\ res.body = <<>>)

\* C8: a request answered 400 or 403 leaves the user, ticket and comment
\* records and both counters unchanged.
C8_FailFast ==
  [][(req = NoRequest /\ res'.status \in {400, 403}) => UNCHANGED store]_vars

C8_Witness ==
  /\ req.op = "PATCH /tickets/:id"
  /\ IsAdmin(req)
  /\ req.id \in DOMAIN tickets
  /\ res.status = 400

\* C9: every ticket returned by a successful POST /tickets has status "new"
\* and the calling principal's id as submitterId.
C9_CreatedNew ==
  (req.op = "POST /tickets" /\ res.status = 200) =>
    /\ Get(res.body[1], "status") = "new"
    /\ res.body[1].submitterId = getUserId(req)

\* C10: no request of a non-admin principal produces or changes a ticket's
\* assignedToId.
C10_AssignOnlyByAdmin ==
  [][\A id \in DOMAIN tickets' :
       LET after == Get(tickets'[id], "assignedToId")
           before == IF id \in DOMAIN tickets
                     THEN Get(tickets[id], "assignedToId") ELSE Null
       IN (after # before /\ after # Undefined) => IsAdmin(req')]_vars

\* C11: a ticket, once created, stays in the store under the same id and
\* with the same submitterId; no step deletes it, and no update changes its
\* id or its submitterId, whatever keys the body of the update carries
C11_TicketKept ==
  [][\A id \in DOMAIN tickets :
       /\ id \in DOMAIN tickets'
       /\ tickets'[id].id = id
       /\ tickets'[id].submitterId = tickets[id].submitterId]_vars

\* an admin's update whose body names another id and another submitter has
\* been applied
C11_Witness ==
  /\ req.op = "PATCH /tickets/:id"
  /\ res.status = 200
  /\ {"id", "submitterId"} \subseteq DOMAIN req.body
  /\ req.body.id # req.id
  /\ req.body.submitterId # tickets[req.id].submitterId
  /\ tickets[req.id].status = req.body.status

\* C12: every ticket's updatedAt is at or after its createdAt, after its
\* creation and after every update, the clock never going backwards
C12_UpdatedNotBeforeCreated ==
  \A id \in DOMAIN tickets : tickets[id].updatedAt >= tickets[id].createdAt

\* a ticket created by a request has been updated at a later time
C12_Witness ==
  /\ req.op = "PATCH /tickets/:id"
  /\ res.status = 200
  /\ req.id >= 3
  /\ tickets[req.id].updatedAt = now
  /\ tickets[req.id].createdAt < now

\* C13: every call of updateTicket that returns sets the ticket's updatedAt
\* to the time of the call, whatever the update carries: a status, an
\* assignee, nothing, or an updatedAt of its own
C13_UpdateStampsNow ==
  [][(req'.op = "updateTicket" /\ now' = now /\ Len(res'.body) = 1)
       => /\ tickets'[req'.id].updatedAt = now
          /\ res'.body[1].updatedAt = now]_vars

\* an update that supplies an updatedAt other than the time of the call has
\* returned
C13_Witness ==
  /\ req.op = "updateTicket"
  /\ Len(res.body) = 1
  /\ "updatedAt" \in DOMAIN req.body
  /\ req.body.updatedAt # now
  /\ tickets[req.id].updatedAt = now

\* the fields of ticket t other than updatedAt
ButUpdatedAt(t) == [k \in DOMAIN t \ {"updatedAt"} |-> t[k]]

\* C15: after updateTicket(id, u) has returned, the same call made again,
\* with no other call in between, leaves every field but updatedAt as the
\* first call left it and sets updatedAt to the time of the second call
C15_UpdateIdempotent ==
  (req.op = "updateTicket" /\ Len(res.body) = 1)
    => /\ ButUpdatedAt(updateTicket(req.id, req.body)) = ButUpdatedAt(tickets[req.id])
       /\ updateTicket(req.id, req.body).updatedAt = now

\* an update of the status has returned and the clock has advanced since, so
\* that the second call comes at a later time than the first
C15_Witness ==
  /\ req.op = "updateTicket"
  /\ Len(res.body) = 1
  /\ "status" \in DOMAIN req.body
  /\ res.body[1].status = req.body.status
  /\ tickets[req.id] = res.body[1]
  /\ tickets[req.id].updatedAt < now

C16_UpdateMissingIs404 ==
  (/\ req.op = "PATCH /tickets/:id"
   /\ IsAdmin(req)
   /\ updateTicketSchemaOk(req.body)
   /\ req.id \notin DOMAIN tickets)
    => res.status = 404

\* C17: every ticket's submitterId is the id of a user record of the store
C17_SubmitterExists ==
  \A id \in DOMAIN tickets : tickets[id].submitterId \in DOMAIN users

\* the assignee of ticket t, when one is set
Assigned(t) == Get(t, "assignedToId") \notin {Undefined, Null}

\* C18: every ticket that has an assignee has an existing user of role admin
\* as assignee; an update naming anyone else as assignee is not applied
C18_AssigneeIsStaff ==
  \A id \in DOMAIN tickets :
    Assigned(tickets[id]) => userRole(tickets[id].assignedToId) = "admin"

\* C19: every stored comment's ticketId is the id of a ticket of the store;
\* a comment for a ticket id that does not exist is refused and not stored
C19_CommentHasTicket ==
  \A c \in DOMAIN comments : comments[c].ticketId \in DOMAIN tickets

\* C20: every status a ticket holds is one of new, in-progress, resolved,
\* closed and every priority one of low, medium, high, critical; an update
\* that carries another status is refused
C20_EnumsKept ==
  /\ \A id \in DOMAIN tickets :
       /\ "status" \in DOMAIN tickets[id] => tickets[id].status \in Statuses
       /\ tickets[id].priority \in Priorities
  /\ (/\ req.op = "PATCH /tickets/:id"
      /\ "status" \in DOMAIN req.body
      /\ req.body.status \notin Statuses)
       => res.status # 200

\* C21: every ticket a create returns has an id greater than the id of every
\* ticket that existed before, the two sample tickets included: the create
\* adds one ticket under that id and leaves the existing tickets as they were
C21_IdsIncrease ==
  [][(req'.op = "POST /tickets" /\ res'.status = 200)
       => LET new == res'.body[1].id
          IN /\ \A id \in DOMAIN tickets : id < new /\ tickets'[id] = tickets[id]
             /\ DOMAIN tickets' = DOMAIN tickets \cup {new}
             /\ tickets'[new] = res'.body[1]]_vars

\* a second ticket has been created by a request
C21_Witness ==
  /\ req.op = "POST /tickets"
  /\ res.status = 200
  /\ res.body[1].id > 3
  /\ tickets[res.body[1].id] = res.body[1]

\* C22: a stored comment stays in the store under its id with the same
\* ticketId, userId, text, isInternal flag and createdAt, whatever happens
\* later; adding a comment adds one comment under an id not in use
C22_CommentsAppendOnly ==
  [][/\ \A c \in DOMAIN comments : c \in DOMAIN comments' /\ comments'[c] = comments[c]
     /\ Cardinality(DOMAIN comments') <= Cardinality(DOMAIN comments) + 1
     /\ \A c \in DOMAIN comments' : comments'[c].id = c]_vars

\* a second comment has been stored while the first is still there
C22_Witness ==
  /\ req.op = "POST /tickets/:id/comments"
  /\ res.status = 200
  /\ DOMAIN comments = {1, 2}
  /\ res.body[1].id = 2

\* the ids of body in the order listed
ListedInOrder(body) == [i \in 1..Len(body) |-> body[i].id]

\* C23: GET /tickets answers an admin with every ticket of the store and any
\* other principal with exactly the tickets that principal submitted, each
\* ticket once and with its stored fields, ordered by createdAt, newest first
C23_ListByRole ==
  (req.op = "GET /tickets" /\ res.status = 200)
    => LET expected == IF IsAdmin(req) THEN DOMAIN tickets
                       ELSE {id \in DOMAIN tickets : tickets[id].submitterId = getUserId(req)}
       IN /\ HasPrincipal(req)
          /\ ListedIds(res.body) = expected
          /\ Len(res.body) = Cardinality(expected)
          /\ \A i \in 1..Len(res.body) : CarriesTicket(<<res.body[i]>>, tickets[res.body[i].id])
          /\ \A i, j \in 1..Len(res.body) :
               i < j => res.body[i].createdAt >= res.body[j].createdAt

\* a principal who is not an admin has listed its tickets, newest first and
\* not in the order of creation, while the store holds a ticket of another
\* submitter
C23_Witness ==
  /\ req.op = "GET /tickets"
  /\ res.status = 200
  /\ ~IsAdmin(req)
  /\ Len(res.body) >= 2
  /\ res.body[1].createdAt > res.body[2].createdAt
  /\ \E id \in DOMAIN tickets : tickets[id].submitterId # getUserId(req)

\* the tickets getTicketStats(u) is to count: those u submitted, or all of
\* them when no user id is given
StatsScope(u) ==
  IF u = Undefined THEN DOMAIN tickets
  ELSE {id \in DOMAIN tickets : tickets[id].submitterId = u}

\* stats holds the counts of the claim over the tickets of u
CountedAs(stats, u) ==
  LET scope == StatsScope(u)
      withStatus(st) == Cardinality({id \in scope : Get(tickets[id], "status") = st})
  IN /\ stats.total = Cardinality(scope)
     /\ stats.new = withStatus("new")
     /\ stats.inProgress = withStatus("in-progress")
     /\ stats.resolved = withStatus("resolved")
     /\ stats.high = Cardinality({id \in scope : tickets[id].priority \in {"high", "critical"}})
     /\ \A k \in {"new", "inProgress", "resolved", "high"} : stats[k] <= stats.total

StatsUserIds == {Undefined, "student1", "admin1", "guest2"}

\* the counts of MemStorage.getTicketStats are the counts of the claim
MemStatsAsClaimed == \A u \in StatsUserIds : CountedAs(getTicketStats(u), u)

\* C24: getTicketStats(userId) counts exactly the tickets userId submitted
\* (all tickets without a userId): total is their number, new, inProgress
\* and resolved the number with that status, high the number of priority
\* high or critical, each at most total; in both implementations of the storage
C24_StatsCounts ==
  \A u \in StatsUserIds :
    /\ CountedAs(getTicketStats(u), u)
    /\ CountedAs(dbGetTicketStats(u), u)

\* the store states a call can have read: the rows that existed at some
\* time (ids are serial and no row is deleted), each with one of the
\* statuses the requests set; a priority never changes
SnapshotStatuses == {"new", "in-progress", "resolved"}

\* stats holds the counts of the rows 1..k under the statuses st
CountsOfSnapshot(stats, k, st) ==
  /\ stats.newTickets = Cardinality({i \in 1..k : st[i] = "new"})
  /\ stats.inProgress = Cardinality({i \in 1..k : st[i] = "in-progress"})
  /\ stats.highPriority =
       Cardinality({i \in 1..k : tickets[i].priority \in {"high", "critical"}})

\* C25: the counters of one statistics response, computed while tickets are
\* created and updated, are the counts of one and the same store state
C25_OneSnapshot ==
  (req.op = "getAdminStats" /\ "highPriority" \in DOMAIN res.body[1])
    => \E k \in 0..Cardinality(DOMAIN tickets) :
         \E st \in [1..k -> SnapshotStatuses] : CountsOfSnapshot(res.body[1], k, st)

\* C26: the assignedToMe of the statistics served to an admin is the number
\* of tickets assigned to that admin at the time of the call
C26_AssignedToMe ==
  (req.op = "GET /stats" /\ res.status = 200 /\ IsAdmin(req))
    => res.body[1].assignedToMe =
         Cardinality({id \in DOMAIN tickets :
                        Get(tickets[id], "assignedToId") = getUserId(req)})

\* the roles the portal knows
KnownRoles == {"student", "faculty", "admin"}

\* the caller names a principal whose role is none of the known ones: a
\* session user with no user record or with another role, or in demo mode
\* a role name that is not one of them
UnknownRole(r) ==
  IF isDemoMode THEN queryRole(r) \notin KnownRoles
  ELSE r.sub # Undefined /\ userRole(r.sub) \notin KnownRoles

\* C27: a principal without a known role is denied the ticket read, the
\* ticket list, the ticket update, the comment list and the staff list, its
\* own tickets included: none of these requests is answered 200, as a
\* student's would be
C27_UnknownRoleDenied ==
  (/\ req.op \in {"GET /tickets/:id", "GET /tickets", "PATCH /tickets/:id",
                  "GET /tickets/:id/comments", "GET /it-staff"}
   /\ UnknownRole(req))
    => res.status # 200

\* C28: no order of the statuses is enforced: whatever status a ticket has,
\* one update by an admin moves it to any of new, in-progress, resolved and
\* closed, backwards as well as forwards
C28_AnyStatusChange ==
  \A id \in DOMAIN tickets, c \in Callers, b \in StatusBodies :
    LET r == Request("PATCH /tickets/:id", c, id, b)
    IN IsAdmin(r) => /\ patchTicket(r).res.status = 200
                     /\ patchTicket(r).tickets[id].status = b.status

\* an admin's update at a later time has closed the first sample ticket,
\* which the store was constructed with as new: every move out of closed,
\* back to new included, is then one update away
C28_Witness ==
  /\ req.op = "PATCH /tickets/:id"
  /\ res.status = 200
  /\ req.id = 1
  /\ tickets[1].status = "closed"
  /\ tickets[1].status = req.body.status
  /\ tickets[1].updatedAt > 4

\* both clients have been answered 200 for an update of the same ticket
BothUpdated ==
  /\ \A p \in ConcClients : req[p] # NoRequest /\ res[p].status = 200
  /\ req["a"].id = req["b"].id

\* the ticket is as after the update of client first and then, on its
\* result, the update of client second
InOrder(first, second) ==
  LET id == req[second].id
      later == res[second].body[1].updatedAt
      u1 == updateTicketSchema(req[first].body)
      u2 == updateTicketSchema(req[second].body)
  IN /\ res[first].body[1].updatedAt <= later
     /\ tickets[id] = Spread(Spread(res[first].body[1], u2), [updatedAt |-> later])
     /\ \A k \in DOMAIN u2 : tickets[id][k] = u2[k]
     /\ \A k \in DOMAIN u1 \ DOMAIN u2 : tickets[id][k] = u1[k]
     /\ tickets[id].updatedAt = later

\* C29: two admin updates of one ticket that are in flight together leave
\* the ticket as the two applied one after the other in some order would: a
\* field both set has the later value, a field one of them set has that
\* value, updatedAt is the time of the later one
C29_SerialOutcome ==
  BothUpdated => InOrder("a", "b") \/ InOrder("b", "a")

\* both requests were in flight before either was applied, one set only the
\* status and the other only the assignee, and both have been applied
C29_Witness ==
  /\ BothUpdated
  /\ req["a"].seen = req["b"].seen
  /\ DOMAIN req["a"].body = {"status"}
  /\ DOMAIN req["b"].body = {"assignedToId"}
  /\ res["a"].body[1].updatedAt < res["b"].body[1].updatedAt
  /\ tickets[req["a"].id].status = req["a"].body.status
  /\ tickets[req["a"].id].assignedToId = req["b"].body.assignedToId

\* C30: a comment stored by POST /tickets/:id/comments is stored under the
\* caller's id and the ticket id of the path, whatever userId and ticketId
\* the body carries
C30_CommentAuthorFromCaller ==
  (req.op = "POST /tickets/:id/comments" /\ res.status = 200) =>
    LET c == res.body[1]
    IN /\ c.id \in DOMAIN comments
       /\ comments[c.id] = c
       /\ c.userId = getUserId(req)
       /\ c.ticketId = req.id

\* a comment has been stored for a body that named another user and
\* another ticket
C30_Witness ==
  /\ req.op = "POST /tickets/:id/comments"
  /\ res.status = 200
  /\ "userId" \in DOMAIN req.body /\ req.body.userId # getUserId(req)
  /\ "ticketId" \in DOMAIN req.body /\ req.body.ticketId # req.id
  /\ res.body[1].id \in DOMAIN comments

====
